---- MODULE Spec2Model ----
(***************************************************************************)
(* Model of server/server.py: the UDP ingestion thread (get_data,          *)
(* execute_command, get_tilt_kind), the GUI handlers of the main thread    *)
(* (toggle_activation, modify_setting, the Speed/Interactive radio         *)
(* buttons, the Start button) and the experiment threads                   *)
(* (start_experiment).                                                     *)
(*                                                                         *)
(* Text is a sequence of one-character strings, so that replace, split,    *)
(* float and the concatenation zone + tilt are computed as Python computes *)
(* them.  A float is an exact decimal fraction [n, d] (d a power of ten).  *)
(***************************************************************************)
EXTENDS Integers, Sequences, FiniteSets, TLC

(***************************************************************************)
(* Bounds of the model                                                     *)
(***************************************************************************)
\* datagrams the socket delivers in one behaviour
MaxRecords == 2
\* changes made in the Settings tab in one behaviour
MaxUpdates == 1
\* trials of one experiment run: range(0, 10) at line 866, scaled down
NumTrials == 2
\* the 3 s timeout of line 875 in polls of 0.1 s (line 887): 30, scaled down
TimeoutTicks == 2
\* changes made in the Settings tab where a sequence of changes is checked
MaxSequence == 2

(***************************************************************************)
(* Text                                                                    *)
(***************************************************************************)
EmptyStr == << >>

DigitChars == {"0", "1", "2", "3", "4", "5", "6", "7", "8", "9"}

DigitVal(c) ==
    CASE c = "0" -> 0 [] c = "1" -> 1 [] c = "2" -> 2 [] c = "3" -> 3
      [] c = "4" -> 4 [] c = "5" -> 5 [] c = "6" -> 6 [] c = "7" -> 7
      [] c = "8" -> 8 [] c = "9" -> 9

\* str.replace(' ', ''): every blank is removed
RECURSIVE RemoveBlanks(_)
RemoveBlanks(s) ==
    IF s = << >> THEN << >>
    ELSE IF Head(s) = " " THEN RemoveBlanks(Tail(s))
    ELSE <<Head(s)>> \o RemoveBlanks(Tail(s))

\* str.split(","): n commas give n + 1 fields, empty fields included
RECURSIVE SplitFrom(_, _)
SplitFrom(s, cur) ==
    IF s = << >> THEN <<cur>>
    ELSE IF Head(s) = "," THEN <<cur>> \o SplitFrom(Tail(s), << >>)
    ELSE SplitFrom(Tail(s), Append(cur, Head(s)))

\* a split that leaves out the empty fields at the end of the list
RECURSIVE DropTrailingEmpty(_)
DropTrailingEmpty(f) ==
    IF f # << >> /\ f[Len(f)] = << >> THEN DropTrailingEmpty(SubSeq(f, 1, Len(f) - 1))
    ELSE f

SplitNoTrailing(s) == DropTrailingEmpty(SplitFrom(s, << >>))

Split(s) == SplitFrom(s, << >>)

(***************************************************************************)
(* Floats                                                                  *)
(***************************************************************************)
RECURSIVE Pow10(_)
Pow10(k) == IF k = 0 THEN 1 ELSE 10 * Pow10(k - 1)

RECURSIVE DigitsValue(_, _)
DigitsValue(s, acc) ==
    IF s = << >> THEN acc ELSE DigitsValue(Tail(s), 10 * acc + DigitVal(Head(s)))

RECURSIVE Normal(_)
Normal(q) ==
    IF q.d > 1 /\ q.n % 10 = 0 THEN Normal([n |-> q.n \div 10, d |-> q.d \div 10])
    ELSE q

Zero == [n |-> 0, d |-> 1]

FSub(a, b) == Normal([n |-> a.n * b.d - b.n * a.d, d |-> a.d * b.d])
FAbs(a) == [n |-> IF a.n < 0 THEN -a.n ELSE a.n, d |-> a.d]
FGt(a, b) == a.n * b.d > b.n * a.d

DotPositions(s) == {k \in 1..Len(s) : s[k] = "."}

\* the text without a leading sign
Unsigned(s) == IF s # << >> /\ Head(s) \in {"-", "+"} THEN Tail(s) ELSE s

\* float(s) succeeds: [sign] digits [. digits] with at least one digit.  (Of what
\* Python's float accepts, exponents, inf, nan and underscores are outside the
\* alphabet of the records the model receives.)
FloatOk(s) ==
    LET u == Unsigned(s)
        dots == DotPositions(u)
    IN  /\ Cardinality(dots) <= 1
        /\ \A k \in 1..Len(u) : u[k] \in DigitChars \/ k \in dots
        /\ Len(u) - Cardinality(dots) >= 1

\* float(s), for FloatOk(s)
Float(s) ==
    LET u == Unsigned(s)
        dots == DotPositions(u)
        p == IF dots = {} THEN Len(u) + 1 ELSE CHOOSE k \in dots : TRUE
        int == SubSeq(u, 1, p - 1)
        frac == SubSeq(u, p + 1, Len(u))
        mag == DigitsValue(int \o frac, 0)
    IN  Normal([n |-> IF s # << >> /\ Head(s) = "-" THEN -mag ELSE mag,
                d |-> Pow10(Len(frac))])

(***************************************************************************)
(* Program constants                                                       *)
(***************************************************************************)
\* self.ACTIONS (ACTIONS is a reserved word of TLA+)
ActionKinds == <<"Not Used", "Play/Pause", "Previous", "Next", "Stop", "Volume +",
             "Volume -", "Seek +", "Seek -", "Scroll UP", "Scroll DOWN", "Mute">>

TYPES == <<"Constant", "Incremental", "Steps">>

Range(f) == {f[k] : k \in DOMAIN f}

\* a table whose first entry is bound to play_pause
interaction_funcs_first_plays ==
    [a \in Range(ActionKinds) |->
        CASE a = "Not Used"    -> [func |-> "play_pause",    flag |-> FALSE, arity |-> 0]
          [] a = "Play/Pause"  -> [func |-> "play_pause",    flag |-> FALSE, arity |-> 0]
          [] a = "Previous"    -> [func |-> "previous",      flag |-> FALSE, arity |-> 0]
          [] a = "Next"        -> [func |-> "next",          flag |-> FALSE, arity |-> 0]
          [] a = "Stop"        -> [func |-> "stop",          flag |-> FALSE, arity |-> 0]
          [] a = "Volume +"    -> [func |-> "increase_vol",  flag |-> TRUE,  arity |-> 1]
          [] a = "Volume -"    -> [func |-> "decrease_vol",  flag |-> TRUE,  arity |-> 1]
          [] a = "Seek +"      -> [func |-> "increase_seek", flag |-> TRUE,  arity |-> 1]
          [] a = "Seek -"      -> [func |-> "decrease_seek", flag |-> TRUE,  arity |-> 1]
          [] a = "Scroll UP"   -> [func |-> "scroll_up",     flag |-> TRUE,  arity |-> 1]
          [] a = "Scroll DOWN" -> [func |-> "scroll_down",   flag |-> TRUE,  arity |-> 1]
          [] a = "Mute"        -> [func |-> "mute",          flag |-> FALSE, arity |-> 0]]

\* interaction_funcs: the function bound to each kind, its "parameterized" flag,
\* and the number of arguments that function takes besides self
interaction_funcs ==
    [a \in Range(ActionKinds) |->
        CASE a = "Not Used"    -> [func |-> "not_used",      flag |-> FALSE, arity |-> 0]
          [] a = "Play/Pause"  -> [func |-> "play_pause",    flag |-> FALSE, arity |-> 0]
          [] a = "Previous"    -> [func |-> "previous",      flag |-> FALSE, arity |-> 0]
          [] a = "Next"        -> [func |-> "next",          flag |-> FALSE, arity |-> 0]
          [] a = "Stop"        -> [func |-> "stop",          flag |-> FALSE, arity |-> 0]
          [] a = "Volume +"    -> [func |-> "increase_vol",  flag |-> TRUE,  arity |-> 1]
          [] a = "Volume -"    -> [func |-> "decrease_vol",  flag |-> TRUE,  arity |-> 1]
          [] a = "Seek +"      -> [func |-> "increase_seek", flag |-> TRUE,  arity |-> 1]
          [] a = "Seek -"      -> [func |-> "decrease_seek", flag |-> TRUE,  arity |-> 1]
          [] a = "Scroll UP"   -> [func |-> "scroll_up",     flag |-> TRUE,  arity |-> 1]
          [] a = "Scroll DOWN" -> [func |-> "scroll_down",   flag |-> TRUE,  arity |-> 1]
          [] a = "Mute"        -> [func |-> "mute",          flag |-> FALSE, arity |-> 0]]

\* the action functions that act on the action sink: keyboard.send (lines 997,
\* 1000, 1003, 1033, 1036) or SetMasterVolumeLevel (lines 1015, 1024); the others
\* are "pass"
Effectful == {"play_pause", "previous", "next", "increase_vol", "decrease_vol",
              "scroll_up", "scroll_down"}

\* the keys of interaction_widgets: five action buttons, two spare buttons, two scales
interaction_widgets ==
    {ActionKinds[2], ActionKinds[4], ActionKinds[3], ActionKinds[5], ActionKinds[12],
     "btn2", "btn3", "volume_required", "seek_required"}

LS == <<"L", "S">>
RS == <<"R", "S">>
TS == <<"T", "S">>
BS == <<"B", "S">>
TU == <<"T", "U">>
TD == <<"T", "D">>
TL == <<"T", "L">>
TR == <<"T", "R">>

\* the sixteen gesture keys: every zone with every tilt
SettingKeys == {z \o t : z \in {LS, RS, TS, BS}, t \in {TU, TD, TL, TR}}

\* the keys lines 97-112 assign, in order
DefaultKeys ==
    <<LS \o TU, LS \o TD, LS \o TL, LS \o TR,
      RS \o TU, RS \o TD, RS \o TL, RS \o TR,
      TS \o TU, TS \o TD, TS \o TL, TS \o TR,
      BS \o TU, BS \o TD, BS \o TL, BS \o TR>>

\* defaults in which the last assignment repeats the key of the one before it
populate_settings_repeated_key ==
    [k \in Range(SubSeq(DefaultKeys, 1, Len(DefaultKeys) - 1)) |->
        [Interaction |-> "Not Used", Type |-> "Not Used"]]

\* populate_settings without a settings file: self.settings = {} (line 27) and
\* the assignments of lines 97-112
populate_settings ==
    [k \in Range(DefaultKeys) |-> [Interaction |-> "Not Used", Type |-> "Not Used"]]

(***************************************************************************)
(* Datagrams the model receives                                            *)
(***************************************************************************)
RECURSIVE Join(_)
Join(fields) ==
    IF Len(fields) = 1 THEN fields[1]
    ELSE fields[1] \o <<",">> \o Join(Tail(fields))

LeftScreen == <<"L", "e", "f", "t", "S", "c", "r", "e", "e", "n">>

\* "1, LS, 0,0,0, 0,0,0, 1,0,0,": rotation (1, 0, 0)
MsgRotX == <<"1", ",", " ">> \o
           Join(<<LS, <<"0">>, <<"0">>, <<"0">>, <<"0">>, <<"0">>, <<"0">>,
                  <<"1">>, <<"0">>, <<"0">>, << >> >>)
\* "2,LS,0,0,0,0,0,0,0,1,0,": rotation (0, 1, 0)
MsgRotY == Join(<<<<"2">>, LS, <<"0">>, <<"0">>, <<"0">>, <<"0">>, <<"0">>, <<"0">>,
                  <<"0">>, <<"1">>, <<"0">>, << >> >>)
\* "3,LS,0,0,0,0,0,0,0.0,0,0,": rotation (0, 0, 0)
MsgRot0 == Join(<<<<"3">>, LS, <<"0">>, <<"0">>, <<"0">>, <<"0">>, <<"0">>, <<"0">>,
                  <<"0", ".", "0">>, <<"0">>, <<"0">>, << >> >>)
\* "0.5,LeftScreen,1,1,1,0,0,0,0,5,0,": a zone label populate_settings does not know
MsgLeftScreen == Join(<<<<"0", ".", "5">>, LeftScreen, <<"1">>, <<"1">>, <<"1">>,
                        <<"0">>, <<"0">>, <<"0">>, <<"0">>, <<"5">>, <<"0">>, << >> >>)
\* "0.5,LeftScreen,1,1,1,0,0,0,0,5,0,,": the same with two trailing commas
MsgScenario == MsgLeftScreen \o <<",">>
\* "1,LS,0,0,0,0,0,0,1,0": ten fields
MsgTenFields == Join(<<<<"1">>, LS, <<"0">>, <<"0">>, <<"0">>, <<"0">>, <<"0">>, <<"0">>,
                       <<"1">>, <<"0">> >>)
\* "1,LS,0,0,0,0,0,0,x,1,0,": twelve fields, rotation x is not a number
MsgBadFloat == Join(<<<<"1">>, LS, <<"0">>, <<"0">>, <<"0">>, <<"0">>, <<"0">>, <<"0">>,
                      <<"x">>, <<"1">>, <<"0">>, << >> >>)

Messages ==
    {MsgRotX, MsgRotY, MsgRot0, MsgLeftScreen, MsgScenario, MsgTenFields, MsgBadFloat}

\* the rotation x and y values of the records the classifier is checked on:
\* "0", "1", "-1" and "0.5" (all exact as binary floats)
TiltTexts == {<<"0">>, <<"1">>, <<"-", "1">>, <<"0", ".", "5">>}
TiltZones == {LS, LeftScreen}

\* "1,<zone>,0,0,0,0,0,0,<x>,<y>,0,"
TiltMsg(zone, x, y) ==
    Join(<<<<"1">>, zone, <<"0">>, <<"0">>, <<"0">>, <<"0">>, <<"0">>, <<"0">>,
           x, y, <<"0">>, << >> >>)

TiltMessages == {TiltMsg(z, x, y) : z \in TiltZones, x \in TiltTexts, y \in TiltTexts}

(***************************************************************************)
(* State                                                                   *)
(***************************************************************************)
VARIABLES
    settings,               \* self.settings
    active_status,          \* self.active_status
    test_status,            \* self.test_status
    last_action_timestep,   \* self.last_action_timestep
    last_action,            \* self.last_action
    gyroscope_history,      \* self.gyroscope_history
    accellerometer_history, \* self.accellerometer_history (set in __init__ only)
    accelerometer_history,  \* self.accelerometer_history (set by get_tilt_kind;
                            \* << >> while the attribute does not exist)
    rotation_history,       \* self.rotation_history
    interaction_mode,       \* self.interaction_mode
    current_action_var,     \* self.current_action_var, the live readout
    ipc,                    \* where the ingestion thread is in get_data
    ingest_error,           \* the exception that ended the ingestion thread
    message_string,         \* get_data's message_string after line 930
    current_interaction,    \* execute_command's current_interaction
    flag,                   \* the flag line 964 read
    calls,                  \* the invocations of the action functions, in order
    nrecv,                  \* datagrams received
    nupd,                   \* settings changed
    rpc,                    \* where each experiment thread is in start_experiment
    run_error,              \* the exception that ended an experiment thread
    trial,                  \* start_experiment's i
    interaction,            \* start_experiment's interaction (line 868)
    elapsed,                \* time.time() - start, in polls of 0.1 s
    found,                  \* start_experiment's found
    experiment_results,     \* start_experiment's experiment_results
    written,                \* the rows written to the csv file (line 906)
    stale,                  \* history: the threads that armed a trial after
                            \* last_action was last written by execute_command
    delivered               \* history: for each experiment thread, the gestures
                            \* execute_command wrote to last_action since the
                            \* thread armed its trial

ingest_vars == <<gyroscope_history, accellerometer_history, accelerometer_history,
                 rotation_history, current_action_var, ipc, ingest_error,
                 message_string, current_interaction, flag, calls, nrecv>>
gui_vars == <<settings, active_status, interaction_mode, nupd>>
run_vars == <<rpc, run_error, trial, interaction, elapsed, found, experiment_results,
              written>>
vars == <<settings, active_status, test_status, last_action_timestep, last_action,
          gyroscope_history, accellerometer_history, accelerometer_history,
          rotation_history, interaction_mode, current_action_var, ipc, ingest_error,
          message_string, current_interaction, flag, calls, nrecv, nupd,
          rpc, run_error, trial, interaction, elapsed, found, experiment_results,
          written, stale, delivered>>

\* the threads the Start button creates (line 725)
Runners == {"t1", "t2"}

\* a name that is not bound yet, or None
NoValue == "None"

\* Server.__init__ and create_interaction_frame
Init ==
    /\ settings = populate_settings
    /\ active_status = FALSE
    /\ test_status = FALSE
    /\ last_action_timestep = Zero
    /\ last_action = EmptyStr
    /\ gyroscope_history = <<Zero, Zero, Zero>>
    /\ accellerometer_history = <<Zero, Zero, Zero>>
    /\ accelerometer_history = << >>
    /\ rotation_history = <<Zero, Zero, Zero>>
    /\ interaction_mode = 1
    /\ current_action_var = <<"N", "/", "A">>
    /\ ipc = "recv"
    /\ ingest_error = NoValue
    /\ message_string = << >>
    /\ current_interaction = EmptyStr
    /\ flag = FALSE
    /\ calls = << >>
    /\ nrecv = 0
    /\ nupd = 0
    /\ rpc = [r \in Runners |-> "idle"]
    /\ run_error = [r \in Runners |-> NoValue]
    /\ trial = [r \in Runners |-> 0]
    /\ interaction = [r \in Runners |-> NoValue]
    /\ elapsed = [r \in Runners |-> 0]
    /\ found = [r \in Runners |-> FALSE]
    /\ experiment_results = [r \in Runners |-> << >>]
    /\ written = [r \in Runners |-> << >>]
    /\ stale = {}
    /\ delivered = [r \in Runners |-> << >>]

(***************************************************************************)
(* The ingestion thread: get_data, execute_command, get_tilt_kind          *)
(***************************************************************************)
\* the fields float() is applied to: lines 936 and 938-940 (0-based 0 and 2..10)
NumericFields == {1} \cup (3..11)

\* lines 935-940, for a 12-field list whose numeric fields all parse
Decode(f) ==
    [Timestep     |-> Float(f[1]),
     Action       |-> f[2],
     Gyroscope    |-> <<Float(f[3]), Float(f[4]), Float(f[5])>>,
     Acceleration |-> <<Float(f[6]), Float(f[7]), Float(f[8])>>,
     Rotation     |-> <<Float(f[9]), Float(f[10]), Float(f[11])>>]

\* a field count check that lets longer lists through
FieldCountAtLeast(f) == Len(f) >= 12

\* the field count get_data accepts (line 932)
FieldCountOk(f) == Len(f) = 12

\* a classifier whose first comparison is "not less than": a tie takes the x branch
TiltKindTieX(rot, hist) ==
    LET dx == FSub(rot[1], hist[1])
        dy == FSub(rot[2], hist[2])
    IN  IF ~FGt(FAbs(dy), FAbs(dx))
        THEN IF FGt(dx, Zero) THEN TR ELSE TL
        ELSE IF FGt(dy, Zero) THEN TD ELSE TU

\* a classifier with the two tilts of the x branch exchanged
TiltKindSwapX(rot, hist) ==
    LET dx == FSub(rot[1], hist[1])
        dy == FSub(rot[2], hist[2])
    IN  IF FGt(FAbs(dx), FAbs(dy))
        THEN IF FGt(dx, Zero) THEN TL ELSE TR
        ELSE IF FGt(dy, Zero) THEN TD ELSE TU

\* a classifier whose y comparison is "not less than": no change in y is TD
TiltKindZeroDown(rot, hist) ==
    LET dx == FSub(rot[1], hist[1])
        dy == FSub(rot[2], hist[2])
    IN  IF FGt(FAbs(dx), FAbs(dy))
        THEN IF FGt(dx, Zero) THEN TR ELSE TL
        ELSE IF ~FGt(Zero, dy) THEN TD ELSE TU

\* a classifier that compares dx itself, not its magnitude, with |dy|
TiltKindNoAbs(rot, hist) ==
    LET dx == FSub(rot[1], hist[1])
        dy == FSub(rot[2], hist[2])
    IN  IF FGt(dx, FAbs(dy))
        THEN IF FGt(dx, Zero) THEN TR ELSE TL
        ELSE IF FGt(dy, Zero) THEN TD ELSE TU

\* lines 975-985: the tilt of rotation rot against the history hist
TiltKind(rot, hist) ==
    LET dx == FSub(rot[1], hist[1])
        dy == FSub(rot[2], hist[2])
    IN  IF FGt(FAbs(dx), FAbs(dy))
        THEN IF FGt(dx, Zero) THEN TR ELSE TL
        ELSE IF FGt(dy, Zero) THEN TD ELSE TU

\* a classifier that keeps the old histories when the tilt is TU
get_tilt_kind_keep_on_TU(data) ==
    /\ gyroscope_history' = data.Gyroscope
    /\ accelerometer_history' = data.Acceleration
    /\ rotation_history' = IF TiltKind(data.Rotation, rotation_history) = TU
                           THEN rotation_history ELSE data.Rotation
    /\ UNCHANGED accellerometer_history

\* a classifier that takes a lock an experiment thread holds while it sleeps
get_tilt_kind_locked(data) ==
    /\ \A r \in DOMAIN rpc : rpc[r] # "sleep"
    /\ gyroscope_history' = data.Gyroscope
    /\ accelerometer_history' = data.Acceleration
    /\ rotation_history' = data.Rotation
    /\ UNCHANGED accellerometer_history

\* get_tilt_kind: the tilt is TiltKind(data.Rotation, rotation_history); lines
\* 987-989 overwrite the three histories
get_tilt_kind(data) ==
    /\ gyroscope_history' = data.Gyroscope
    /\ accelerometer_history' = data.Acceleration
    /\ rotation_history' = data.Rotation
    /\ UNCHANGED accellerometer_history

\* an uncaught exception leaves "while True": line 956 catches only
\* KeyboardInterrupt and SystemExit, so the thread ends
Raise(e) ==
    /\ ipc' = "dead"
    /\ ingest_error' = e

\* lines 935-961: the decoded sample is classified and handed to execute_command
Classify(data, tilt) ==
    /\ get_tilt_kind(data)
    /\ current_interaction' = data.Action \o tilt
    /\ current_action_var' = data.Action \o tilt
    /\ ipc' = "exec"
    /\ UNCHANGED ingest_error

\* lines 930-954, for the list f that line 930 produced
Accept(f) ==
    /\ message_string' = f
    /\ IF ~FieldCountOk(f)
       THEN \* line 933: continue
            UNCHANGED <<gyroscope_history, accellerometer_history,
                        accelerometer_history, rotation_history,
                        current_action_var, ipc, ingest_error, current_interaction>>
       ELSE IF \E k \in NumericFields : ~FloatOk(f[k])
       THEN \* float() raises ValueError
            /\ Raise("ValueError")
            /\ UNCHANGED <<gyroscope_history, accellerometer_history,
                           accelerometer_history, rotation_history,
                           current_action_var, current_interaction>>
       ELSE Classify(Decode(f), TiltKind(Decode(f).Rotation, rotation_history))

\* lines 919-954: one datagram is received, split, decoded and classified
Receive(m) ==
    /\ ipc = "recv"
    /\ nrecv < MaxRecords
    /\ nrecv' = nrecv + 1
    /\ UNCHANGED <<settings, active_status, test_status, last_action_timestep,
                   last_action, interaction_mode, flag, calls, nupd, stale, delivered>>
    /\ UNCHANGED run_vars
    /\ IF m = << >>
       THEN \* line 922: an empty datagram is skipped
            UNCHANGED <<gyroscope_history, accellerometer_history,
                        accelerometer_history, rotation_history, current_action_var,
                        ipc, ingest_error, message_string, current_interaction>>
       ELSE Accept(Split(RemoveBlanks(m)))

\* lines 963-964 and 968-972: the branch on the mode flags; in Live the flag of
\* the bound kind is read
\* thread r has armed a trial and not yet recorded its row (lines 870-894)
Armed(r) == rpc[r] \in {"while", "poll", "compare", "found", "clear", "sleep", "end"}

\* the gesture line 970 writes, as thread r will see it: its key, the polls r
\* has slept since arming, and whether line 880 would find it the required one
Gesture(r) ==
    [key |-> current_interaction,
     at |-> elapsed[r],
     match |-> /\ current_interaction \in DOMAIN settings
               /\ settings[current_interaction].Interaction = interaction[r]]

\* a branch taken whatever test_status is: "else" for "elif self.test_status"
TimingAlways == TRUE

\* line 968: elif self.test_status
TimingBranch == test_status

\* a branch on the flags with the experiment first: "if self.test_status" before
\* "elif self.active_status"
LiveUnlessTiming == active_status /\ ~test_status

\* line 963: if self.active_status
LiveBranch == active_status

ExecuteCommand ==
    /\ ipc = "exec"
    /\ UNCHANGED run_vars
    /\ UNCHANGED <<settings, active_status, test_status, interaction_mode, nupd,
                   gyroscope_history, accellerometer_history, accelerometer_history,
                   rotation_history, current_action_var, message_string, calls, nrecv>>
    /\ IF LiveBranch
       THEN /\ UNCHANGED <<last_action_timestep, last_action, stale, delivered>>
            /\ IF current_interaction \notin DOMAIN settings
               THEN /\ Raise("KeyError")
                    /\ UNCHANGED <<current_interaction, flag>>
               ELSE /\ flag' = interaction_funcs[settings[current_interaction].Interaction].flag
                    /\ ipc' = "call"
                    /\ UNCHANGED <<ingest_error, current_interaction>>
       ELSE /\ IF TimingBranch
               THEN /\ last_action_timestep' = Decode(message_string).Timestep
                    /\ last_action' = current_interaction
                    /\ stale' = {}
                    /\ delivered' = [r \in Runners |->
                          IF Armed(r) THEN Append(delivered[r], Gesture(r)) ELSE delivered[r]]
               ELSE UNCHANGED <<last_action_timestep, last_action, stale, delivered>>
            /\ ipc' = "recv"
            /\ current_interaction' = EmptyStr
            /\ UNCHANGED <<ingest_error, flag>>

\* the arguments line 965 or 967 passes, given the flag line 964 read
CallArgs(fl, binding) == IF fl THEN <<binding.Type>> ELSE << >>

\* lines 965 and 967: the function of the bound kind is looked up again and called
Call ==
    /\ ipc = "call"
    /\ UNCHANGED run_vars
    /\ UNCHANGED <<stale, delivered>>
    /\ UNCHANGED <<settings, active_status, test_status, interaction_mode, nupd,
                   last_action_timestep, last_action,
                   gyroscope_history, accellerometer_history, accelerometer_history,
                   rotation_history, current_action_var, message_string, nrecv>>
    /\ LET binding == settings[current_interaction]
           f == interaction_funcs[binding.Interaction]
           args == CallArgs(flag, binding)
       IN  IF Len(args) # f.arity
           THEN /\ Raise("TypeError")
                /\ UNCHANGED <<calls, current_interaction, flag>>
           ELSE /\ calls' = Append(calls, [func |-> f.func, args |-> args])
                /\ ipc' = "recv"
                /\ current_interaction' = EmptyStr
                /\ flag' = FALSE
                /\ UNCHANGED ingest_error

(***************************************************************************)
(* The GUI handlers of the main thread                                     *)
(***************************************************************************)
\* an Enable button that also forgets the last gesture
toggle_activation_clears ==
    /\ UNCHANGED run_vars
    /\ UNCHANGED <<stale, delivered>>
    /\ active_status' = ~active_status
    /\ last_action' = EmptyStr
    /\ UNCHANGED <<settings, test_status, last_action_timestep, interaction_mode, nupd>>
    /\ UNCHANGED ingest_vars

\* lines 177-183
toggle_activation ==
    /\ UNCHANGED run_vars
    /\ UNCHANGED <<stale, delivered>>
    /\ active_status' = ~active_status
    /\ UNCHANGED <<settings, test_status, last_action_timestep, last_action,
                   interaction_mode, nupd>>
    /\ UNCHANGED ingest_vars

\* the bindings the model's Settings tab selects
UpdateKeys == {LS \o TR, LS \o TD}
UpdateInteractions == {"Play/Pause", "Volume +"}
UpdateTypes == {"Constant"}

\* a change that stores the value in both fields of the binding
modify_setting_both_fields(key, field, value) ==
    /\ UNCHANGED run_vars
    /\ UNCHANGED <<stale, delivered>>
    /\ nupd' = nupd + 1
    /\ settings' = [settings EXCEPT ![key] = [Interaction |-> value, Type |-> value]]
    /\ UNCHANGED <<active_status, test_status, last_action_timestep, last_action,
                   interaction_mode>>
    /\ UNCHANGED ingest_vars

\* lines 676-677: settings[key][field] = the OptionMenu's value
modify_setting(key, field, value) ==
    /\ UNCHANGED run_vars
    /\ UNCHANGED <<stale, delivered>>
    /\ nupd' = nupd + 1
    /\ settings' = [settings EXCEPT ![key][field] = value]
    /\ UNCHANGED <<active_status, test_status, last_action_timestep, last_action,
                   interaction_mode>>
    /\ UNCHANGED ingest_vars

\* the radio buttons of lines 719-722
select_mode(v) ==
    /\ UNCHANGED run_vars
    /\ UNCHANGED <<stale, delivered>>
    /\ interaction_mode # v
    /\ interaction_mode' = v
    /\ UNCHANGED <<settings, active_status, test_status, last_action_timestep,
                   last_action, nupd>>
    /\ UNCHANGED ingest_vars

(***************************************************************************)
(* The experiment threads: start_experiment                                *)
(***************************************************************************)
env_vars == <<settings, active_status, interaction_mode, nupd, last_action_timestep>>

\* the Start button (line 725) starts a thread; lines 861-864
StartExperiment(r) ==
    /\ rpc[r] = "idle"
    /\ test_status' = TRUE
    /\ experiment_results' = [experiment_results EXCEPT ![r] = << >>]
    /\ trial' = [trial EXCEPT ![r] = 0]
    /\ rpc' = [rpc EXCEPT ![r] = "for"]
    /\ UNCHANGED <<last_action, run_error, interaction, elapsed, found, written, stale, delivered>>
    /\ UNCHANGED env_vars
    /\ UNCHANGED ingest_vars

\* lines 866-873: the next trial is armed with the widget random.choice returns
ArmTrial(r, w) ==
    /\ rpc[r] = "for"
    /\ trial[r] < NumTrials
    /\ interaction' = [interaction EXCEPT ![r] = w]
    /\ elapsed' = [elapsed EXCEPT ![r] = 0]
    /\ found' = [found EXCEPT ![r] = FALSE]
    /\ rpc' = [rpc EXCEPT ![r] = "while"]
    /\ stale' = IF last_action = EmptyStr THEN stale ELSE stale \cup {r}
    /\ delivered' = [delivered EXCEPT ![r] = << >>]
    /\ UNCHANGED <<test_status, last_action, run_error, trial, experiment_results,
                   written>>
    /\ UNCHANGED env_vars
    /\ UNCHANGED ingest_vars

\* line 898: the loop of line 866 is exhausted
Disarm(r) ==
    /\ rpc[r] = "for"
    /\ trial[r] = NumTrials
    /\ test_status' = FALSE
    /\ rpc' = [rpc EXCEPT ![r] = "save"]
    /\ UNCHANGED <<last_action, run_error, trial, interaction, elapsed, found,
                   experiment_results, written, stale, delivered>>
    /\ UNCHANGED env_vars
    /\ UNCHANGED ingest_vars

\* line 875 with time.time() - start = e polls: at exactly 3 s the comparison
\* holds only if no time at all went by outside the sleeps
MayPoll(e) == e <= TimeoutTicks
MustPoll(e) == e < TimeoutTicks

\* line 875
WhileCheck(r) ==
    /\ rpc[r] = "while"
    /\ \/ MayPoll(elapsed[r]) /\ rpc' = [rpc EXCEPT ![r] = "poll"]
       \/ ~MustPoll(elapsed[r]) /\ rpc' = [rpc EXCEPT ![r] = "end"]
    /\ UNCHANGED <<test_status, last_action, run_error, trial, interaction, elapsed,
                   found, experiment_results, written, stale, delivered>>
    /\ UNCHANGED env_vars
    /\ UNCHANGED ingest_vars

\* line 876
Poll(r) ==
    /\ rpc[r] = "poll"
    /\ rpc' = [rpc EXCEPT ![r] = IF last_action = EmptyStr THEN "sleep" ELSE "compare"]
    /\ UNCHANGED <<test_status, last_action, run_error, trial, interaction, elapsed,
                   found, experiment_results, written, stale, delivered>>
    /\ UNCHANGED env_vars
    /\ UNCHANGED ingest_vars

\* line 880: the kind bound to last_action is the required one
Matches(la, w) == settings[la].Interaction = w

\* lines 879-880: last_action is read again and its binding looked up
Compare(r) ==
    /\ rpc[r] = "compare"
    /\ IF last_action \notin DOMAIN settings
       THEN /\ rpc' = [rpc EXCEPT ![r] = "dead"]
            /\ run_error' = [run_error EXCEPT ![r] = "KeyError"]
       ELSE /\ rpc' = [rpc EXCEPT ![r] =
                         IF Matches(last_action, interaction[r]) THEN "found" ELSE "clear"]
            /\ UNCHANGED run_error
    /\ UNCHANGED <<test_status, last_action, trial, interaction, elapsed,
                   found, experiment_results, written, stale, delivered>>
    /\ UNCHANGED env_vars
    /\ UNCHANGED ingest_vars

\* lines 881-884
Found(r) ==
    /\ rpc[r] = "found"
    /\ last_action' = EmptyStr
    /\ found' = [found EXCEPT ![r] = TRUE]
    /\ rpc' = [rpc EXCEPT ![r] = "end"]
    /\ stale' = {}
    /\ UNCHANGED <<test_status, run_error, trial, interaction, elapsed,
                   experiment_results, written, delivered>>
    /\ UNCHANGED env_vars
    /\ UNCHANGED ingest_vars

\* line 886
Clear(r) ==
    /\ rpc[r] = "clear"
    /\ last_action' = EmptyStr
    /\ rpc' = [rpc EXCEPT ![r] = "sleep"]
    /\ stale' = {}
    /\ UNCHANGED <<test_status, run_error, trial, interaction, elapsed, found,
                   experiment_results, written, delivered>>
    /\ UNCHANGED env_vars
    /\ UNCHANGED ingest_vars

\* line 887: time.sleep(0.1)
Sleep(r) ==
    /\ rpc[r] = "sleep"
    /\ elapsed' = [elapsed EXCEPT ![r] = elapsed[r] + 1]
    /\ rpc' = [rpc EXCEPT ![r] = "while"]
    /\ UNCHANGED <<test_status, last_action, run_error, trial, interaction, found,
                   experiment_results, written, stale, delivered>>
    /\ UNCHANGED env_vars
    /\ UNCHANGED ingest_vars

\* line 894: the row of the trial
Row(r) ==
    [RequiredAction |-> interaction[r], Time |-> elapsed[r], Correct |-> found[r],
     Mode |-> interaction_mode]

\* lines 889-896 and the step of the loop of line 866
EndTrial(r) ==
    /\ rpc[r] = "end"
    /\ experiment_results' = [experiment_results EXCEPT ![r] = Append(@, Row(r))]
    /\ trial' = [trial EXCEPT ![r] = trial[r] + 1]
    /\ rpc' = [rpc EXCEPT ![r] = "for"]
    /\ delivered' = [delivered EXCEPT ![r] = << >>]
    /\ UNCHANGED <<test_status, last_action, run_error, interaction, elapsed, found,
                   written, stale>>
    /\ UNCHANGED env_vars
    /\ UNCHANGED ingest_vars

\* lines 899-906: the rows are written to the csv file
Save(r) ==
    /\ rpc[r] = "save"
    /\ written' = [written EXCEPT ![r] = experiment_results[r]]
    /\ rpc' = [rpc EXCEPT ![r] = "done"]
    /\ UNCHANGED <<test_status, last_action, run_error, trial, interaction, elapsed,
                   found, experiment_results, stale, delivered>>
    /\ UNCHANGED env_vars
    /\ UNCHANGED ingest_vars

(***************************************************************************)
(* Specifications                                                          *)
(***************************************************************************)
\* the steps of the experiment thread r, that draws its widgets from W
Run(r, W) ==
    \/ StartExperiment(r)
    \/ \E w \in W : ArmTrial(r, w)
    \/ Disarm(r)
    \/ WhileCheck(r)
    \/ Poll(r)
    \/ Compare(r)
    \/ Found(r)
    \/ Clear(r)
    \/ Sleep(r)
    \/ EndTrial(r)
    \/ Save(r)

\* the steps of the ingestion thread, that receives the datagrams of M
Ingest(M) ==
    \/ \E m \in M : Receive(m)
    \/ ExecuteCommand
    \/ Call

\* the Settings tab, for at most n changes
ConfigureUpTo(n) ==
    /\ nupd < n
    /\ \/ \E k \in UpdateKeys, v \in UpdateInteractions : modify_setting(k, "Interaction", v)
       \/ \E k \in UpdateKeys, v \in UpdateTypes : modify_setting(k, "Type", v)

\* the Settings tab
Configure == ConfigureUpTo(MaxUpdates)

\* Ingestion and dispatch: every datagram of Messages, the Enable button, the
\* Settings tab, and one experiment run whose required widget is Play/Pause.
Next ==
    \/ Ingest(Messages)
    \/ toggle_activation
    \/ Configure
    \/ Run("t1", {"Play/Pause"})

Spec == Init /\ [][Next]_vars

\* One experiment run against the ingestion thread: the required widget is one
\* a binding can match or one no binding matches.
RunMessages == {MsgRotX, MsgRotY, MsgLeftScreen}
RunWidgets == {"Play/Pause", "btn2"}

\* Live interaction stays disabled, so lines 964-967 are not reached
NextRun ==
    \/ \E m \in RunMessages : Receive(m)
    \/ ExecuteCommand
    \/ Configure
    \/ Run("t1", RunWidgets)

SpecRun == Init /\ [][NextRun]_vars

\* the scheduler runs every thread that can take a step
FairSpecRun ==
    /\ SpecRun
    /\ WF_vars(Run("t1", RunWidgets))
    /\ WF_vars(ExecuteCommand)

\* Two presses of Start: settings.json, saved by an earlier session, binds
\* LSTR to Play/Pause.
SavedSettings ==
    [populate_settings EXCEPT ![LS \o TR] = [Interaction |-> "Play/Pause", Type |-> "Not Used"]]

InitSaved ==
    /\ settings = SavedSettings
    /\ active_status = FALSE
    /\ test_status = FALSE
    /\ last_action_timestep = Zero
    /\ last_action = EmptyStr
    /\ gyroscope_history = <<Zero, Zero, Zero>>
    /\ accellerometer_history = <<Zero, Zero, Zero>>
    /\ accelerometer_history = << >>
    /\ rotation_history = <<Zero, Zero, Zero>>
    /\ interaction_mode = 1
    /\ current_action_var = <<"N", "/", "A">>
    /\ ipc = "recv"
    /\ ingest_error = NoValue
    /\ message_string = << >>
    /\ current_interaction = EmptyStr
    /\ flag = FALSE
    /\ calls = << >>
    /\ nrecv = 0
    /\ nupd = 0
    /\ rpc = [r \in Runners |-> "idle"]
    /\ run_error = [r \in Runners |-> NoValue]
    /\ trial = [r \in Runners |-> 0]
    /\ interaction = [r \in Runners |-> NoValue]
    /\ elapsed = [r \in Runners |-> 0]
    /\ found = [r \in Runners |-> FALSE]
    /\ experiment_results = [r \in Runners |-> << >>]
    /\ written = [r \in Runners |-> << >>]
    /\ stale = {}
    /\ delivered = [r \in Runners |-> << >>]

\* Live interaction stays disabled, so lines 964-967 are not reached
NextTwo ==
    \/ \E m \in {MsgRotX} : Receive(m)
    \/ ExecuteCommand
    \/ \E r \in Runners : Run(r, {"Play/Pause"})

SpecTwo == InitSaved /\ [][NextTwo]_vars

\* Records of 12, 10 and 13 fields in every mode: the Enable button and one
\* experiment run, with the bindings of settings.json.
DropMessages == {MsgRotX, MsgTenFields, MsgScenario}

NextDrop ==
    \/ Ingest(DropMessages)
    \/ toggle_activation
    \/ Run("t1", {"Play/Pause"})

SpecDrop == InitSaved /\ [][NextDrop]_vars

\* The classifier on every pair of rotations over TiltTexts: the first record is
\* classified against the zero history, the next against the record before it.
\* Live interaction stays disabled, so lines 964-967 are not reached.
NextTilt ==
    \/ \E m \in TiltMessages : Receive(m)
    \/ ExecuteCommand

SpecTilt == Init /\ [][NextTilt]_vars

\* First startup without an experiment: the ingestion thread on every datagram
\* of Messages, the Enable button and the Settings tab.
NextLive ==
    \/ Ingest(Messages)
    \/ toggle_activation
    \/ Configure

SpecLive == Init /\ [][NextLive]_vars

\* Well-formed and malformed records in every mode: two records whose rotations
\* differ, a ten-field record and one with an unparsable field, the Enable
\* button and one experiment run, with the bindings of settings.json.
ModeMessages == {MsgRotX, MsgRotY, MsgTenFields, MsgBadFloat}

NextModes ==
    \/ Ingest(ModeMessages)
    \/ toggle_activation
    \/ Run("t1", {"Play/Pause"})

SpecModes == InitSaved /\ [][NextModes]_vars

\* Sequences of changes in the Settings tab, in every mode: two records, the
\* Enable button, and an experiment thread that has set test_status (line 861)
\* and is not scheduled further.
NextSettings ==
    \/ ConfigureUpTo(MaxSequence)
    \/ Ingest({MsgRotX, MsgRotY})
    \/ toggle_activation
    \/ StartExperiment("t1")

SpecSettings == Init /\ [][NextSettings]_vars

\* The Speed/Interactive radio buttons against one experiment run, with the
\* bindings of settings.json and one record.
NextKind ==
    \/ \E v \in {1, 2} : select_mode(v)
    \/ \E m \in {MsgRotX} : Receive(m)
    \/ ExecuteCommand
    \/ Run("t1", {"Play/Pause"})

SpecKind == InitSaved /\ [][NextKind]_vars

(***************************************************************************)
(* Claims                                                                  *)
(***************************************************************************)
\* an experiment thread that is executing trials (lines 866-896)
InTrials(r) == rpc[r] \in {"for", "while", "poll", "compare", "found", "clear", "sleep", "end"}

\* an experiment thread that has ended, normally or by an exception
Ended(r) == rpc[r] \in {"done", "dead"}

\* C1: the Live-dispatch flag active_status and the ExperimentTiming flag
\* test_status are never both true.
C1_MutualExclusion == ~(active_status /\ test_status)

\* C2: a trial is found matched only by a gesture that execute_command wrote to
\* last_action after the trial was armed: the comparison of line 880 never
\* succeeds for a thread that armed its trial after last_action was written.
C2_NoStaleMatch ==
    [][\A r \in Runners : (rpc[r] = "compare" /\ rpc'[r] = "found") => r \notin stale]_vars

\* C3: at most one experiment thread is executing trials at any time.
C3_SingleRunner == Cardinality({r \in Runners : InTrials(r)}) <= 1

\* C4: every started call of start_experiment that has ended has produced
\* exactly NumTrials rows (10 in the source), whatever the ingestion thread
\* delivered.
C4_AllRows == \A r \in Runners : Ended(r) => Len(experiment_results[r]) = NumTrials

\* C5: every started experiment run eventually completes, and then test_status
\* is false and the rows have been written.
C5_RunCompletes ==
    (rpc["t1"] = "for") ~>
        (rpc["t1"] = "done" /\ ~test_status /\ Len(written["t1"]) = NumTrials)

\* C6: a 12-field record with an unparsable numeric field is dropped and the
\* ingestion loop keeps running.
C6_BadFloatDropped ==
    (/\ Len(message_string) = 12
     /\ \E k \in NumericFields : ~FloatOk(message_string[k]))
        => ipc # "dead"

\* C7: receiving a record whose field count is not 12 changes nothing: the
\* histories, last_action, the mode flags, the bindings, the readout and the
\* invocations are as before and the loop waits for the next datagram, so the
\* records that follow are processed as if it had not arrived.
C7_DroppedNoChange ==
    [][(nrecv' = nrecv + 1 /\ Len(message_string') # 12)
        => UNCHANGED <<settings, active_status, test_status, last_action_timestep,
                       last_action, gyroscope_history, accellerometer_history,
                       accelerometer_history, rotation_history, interaction_mode,
                       current_action_var, ipc, ingest_error, current_interaction,
                       flag, calls, nupd, rpc, run_error, trial, interaction,
                       elapsed, found, experiment_results, written>>]_vars

\* a ten-field record was dropped after a well-formed record had moved the
\* rotation history, and the loop is waiting for the next datagram
C7_Witness ==
    /\ Len(message_string) = 10
    /\ rotation_history # <<Zero, Zero, Zero>>
    /\ ipc = "recv"

\* C8: while test_status is true no gesture causes an action-sink invocation.
C8_NoDispatchDuringRun ==
    [][(test_status /\ calls' # calls) => calls'[Len(calls')].func \notin Effectful]_vars

\* C9: in Live mode the key execute_command derives from a well-formed record
\* has a binding, and the lookup raises no KeyError.
C9_LookupNeverFails ==
    /\ (ipc = "exec" /\ active_status) => current_interaction \in DOMAIN settings
    /\ ingest_error # "KeyError"

\* the kind whose function is func
KindOf(func) == CHOOSE a \in Range(ActionKinds) : interaction_funcs[a].func = func

\* C10: every dispatch calls a non-parameterized kind with no argument and a
\* parameterized kind with one argument, one of the values a binding's Type
\* takes, and no call fails on its argument count.
C10_CallShape ==
    /\ ingest_error # "TypeError"
    /\ \A i \in 1..Len(calls) :
          Len(calls[i].args) = IF interaction_funcs[KindOf(calls[i].func)].flag THEN 1 ELSE 0

\* the row line 894 appends in this step of thread r
NewRow(r) == experiment_results'[r][Len(experiment_results'[r])]

\* thread r records the row of its trial in this step (line 894)
RecordsRow(r) == rpc[r] = "end" /\ rpc'[r] = "for"

\* C11: with Live interaction disabled, a trial during which exactly one
\* gesture was classified, right after arming (before the first 0.1 s poll
\* interval was over) and matching the required target, is recorded
\* matched = true with an elapsed time of at most one poll interval.
C11_ImmediateMatch ==
    [][\A r \in Runners :
          (/\ RecordsRow(r)
           /\ ~active_status
           /\ Len(delivered[r]) = 1
           /\ delivered[r][1].match
           /\ delivered[r][1].at = 0)
          => (NewRow(r).Correct /\ NewRow(r).Time <= 1)]_vars

\* C12: a trial during which no matching gesture was delivered is recorded
\* matched = false, with an elapsed time of the timeout or one poll interval
\* more (TimeoutTicks or TimeoutTicks + 1 polls; 30 or 31 in the source),
\* never less.
C12_TimeoutRecorded ==
    [][\A r \in Runners :
          (/\ RecordsRow(r)
           /\ \A i \in 1..Len(delivered[r]) : ~delivered[r][i].match)
          => (/\ ~NewRow(r).Correct
              /\ NewRow(r).Time >= TimeoutTicks
              /\ NewRow(r).Time <= TimeoutTicks + 1)]_vars

\* the step decodes and classifies a sample (lines 935-961)
Classifies == ipc = "recv" /\ ipc' = "exec"

\* the tilt the step appended to the zone label (line 960)
NewTilt ==
    SubSeq(current_interaction', Len(current_interaction') - 1, Len(current_interaction'))

\* the rotation deltas of the sample the step classified: lines 987-989 leave
\* the sample's rotation in rotation_history
DeltaX == FSub(rotation_history'[1], rotation_history[1])
DeltaY == FSub(rotation_history'[2], rotation_history[2])

\* the sign of a fraction and the comparison of two magnitudes by their squares
Sign(q) == IF q.n > 0 THEN 1 ELSE IF q.n < 0 THEN -1 ELSE 0
Larger(a, b) == a.n * a.n * b.d * b.d > b.n * b.n * a.d * a.d

\* the reference rule of the classifier
RefTilt(dx, dy) ==
    CASE Larger(dx, dy) /\ Sign(dx) = 1 -> TR
      [] Larger(dx, dy) /\ Sign(dx) # 1 -> TL
      [] ~Larger(dx, dy) /\ Sign(dy) = 1 -> TD
      [] ~Larger(dx, dy) /\ Sign(dy) # 1 -> TU

\* C13: a sample whose rotation deltas have equal magnitudes is classified by
\* the y branch: TD (Down) when dy > 0 and TU (Up) otherwise, never TL or TR.
C13_TieBreak ==
    [][(Classifies /\ FAbs(DeltaX) = FAbs(DeltaY))
        => NewTilt = IF Sign(DeltaY) = 1 THEN TD ELSE TU]_vars

\* the first record, with rotation (-1, 1, 0), was classified against the zero
\* history: a tie with dy > 0
C13_Witness ==
    /\ nrecv = 1
    /\ ipc = "exec"
    /\ rotation_history = <<[n |-> -1, d |-> 1], [n |-> 1, d |-> 1], Zero>>
    /\ current_interaction = LS \o TD

\* C14: every classification equals the reference rule (|dx| > |dy|: TR when
\* dx > 0, else TL; otherwise TD when dy > 0, else TU), is one of the four
\* tilts, and the gesture key is the sample's zone label followed by the tilt.
C14_ReferenceRule ==
    [][Classifies
        => (/\ NewTilt = RefTilt(DeltaX, DeltaY)
            /\ NewTilt \in {TU, TD, TL, TR}
            /\ current_interaction' = message_string'[2] \o NewTilt)]_vars

\* the second record was classified TL against the history (1, 0.5, 0) the
\* first record left
C14_Witness ==
    /\ nrecv = 2
    /\ ipc = "exec"
    /\ rotation_history[1] = [n |-> -1, d |-> 1]
    /\ rotation_history[2] = [n |-> 5, d |-> 10]
    /\ current_interaction = LeftScreen \o TL

\* C15 as stated: the record "0.5,LeftScreen,1,1,1,0,0,0,0,5,0,," received with
\* the zero rotation history is accepted and classified TD (Down), giving the
\* key LeftScreen followed by that tilt.
C15_ScenarioAccepted ==
    [][(/\ nrecv' = nrecv + 1
        /\ rotation_history = <<Zero, Zero, Zero>>
        /\ message_string' = Split(RemoveBlanks(MsgScenario)))
        => (ipc' = "exec" /\ current_interaction' = LeftScreen \o TD)]_vars

\* C15 amended: the record "0.5,LeftScreen,1,1,1,0,0,0,0,5,0," (one trailing
\* comma: twelve fields) received with the zero rotation history is accepted
\* and classified with dx = 0, dy = 5, the y branch, TD (Down), giving the key
\* "LeftScreenTD".
C15_TwelveFieldScenario ==
    [][(/\ nrecv' = nrecv + 1
        /\ rotation_history = <<Zero, Zero, Zero>>
        /\ message_string' = Split(RemoveBlanks(MsgLeftScreen)))
        => (/\ ipc' = "exec"
            /\ DeltaX = Zero
            /\ DeltaY = [n |-> 5, d |-> 1]
            /\ current_interaction' = LeftScreen \o TD)]_vars

\* the twelve-field record was the first one received and has been classified
C15_Witness ==
    /\ nrecv = 1
    /\ ipc = "exec"
    /\ Len(message_string) = 12
    /\ message_string[2] = LeftScreen
    /\ current_interaction = LeftScreen \o TD

\* C16: a Live dispatch of a key whose binding's Interaction is Not Used calls
\* no function that acts on the action sink, however often it is repeated and
\* whatever the binding's Type is.
C16_NotUsedNoEffect ==
    [][(/\ ipc = "call"
        /\ ipc' # "call"
        /\ settings[current_interaction].Interaction = "Not Used")
        => (calls' = calls \/ calls'[Len(calls')].func \notin Effectful)]_vars

\* two dispatches have called not_used, and a binding whose Interaction is
\* Not Used has the Type Constant
C16_Witness ==
    /\ Len(calls) = 2
    /\ \A i \in 1..2 : calls[i] = [func |-> "not_used", args |-> << >>]
    /\ settings[LS \o TR] = [Interaction |-> "Not Used", Type |-> "Constant"]

\* C17: in Idle (active_status and test_status both false) the steps that
\* process a sample (decode and classify, then the branch of execute_command)
\* invoke no action and leave last_action, last_action_timestep, the mode flags
\* and the bindings as they are; the histories and the readout may change.
C17_IdleFrame ==
    [][(/\ ~active_status
        /\ ~test_status
        /\ ipc \in {"recv", "exec"}
        /\ (nrecv' # nrecv \/ ipc' # ipc))
        => (/\ UNCHANGED <<calls, last_action, last_action_timestep, active_status,
                           test_status, settings, interaction_mode>>
            /\ ipc' # "call")]_vars

\* a well-formed record was processed to the end in Idle: the history and the
\* readout carry it, nothing was called, nothing was recorded
C17_Witness ==
    /\ nrecv = 1
    /\ ipc = "recv"
    /\ ~active_status
    /\ rpc["t1"] = "idle"
    /\ rotation_history = <<[n |-> 1, d |-> 1], Zero, Zero>>
    /\ current_action_var = LS \o TR
    /\ calls = << >>
    /\ last_action = EmptyStr

\* the lists line 930 makes of the records of DropMessages, and the samples
\* lines 935-940 decode from those of twelve fields
DropFields == {Split(RemoveBlanks(m)) : m \in DropMessages}
DropSamples == {Decode(f) : f \in {g \in DropFields : Len(g) = 12}}

\* C18: the ingestion thread never waits for an experiment thread: wherever the
\* experiment thread is, the thread that has received a record can drop it or
\* classify its sample, and the thread that has classified a sample can take
\* the branch of execute_command and make the call, each by a step of its own.
C18_IngestionNeverWaits ==
    /\ ipc = "recv" =>
          /\ \A f \in DropFields : Len(f) # 12 => ENABLED Accept(f)
          /\ \A d \in DropSamples :
                ENABLED Classify(d, TiltKind(d.Rotation, rotation_history))
    /\ ipc = "exec" => ENABLED ExecuteCommand
    /\ ipc = "call" => ENABLED Call

\* a gesture was classified and recorded while the experiment thread was in
\* its trial; the thread is now in the sleep of line 887 and the ingestion
\* thread is back at recvfrom
C18_Witness ==
    /\ rpc["t1"] = "sleep"
    /\ Len(delivered["t1"]) = 1
    /\ ipc = "recv"

\* C20: at first startup without a settings file, and until the Settings tab
\* changes a binding, the registry holds exactly the sixteen gesture keys
\* (LS, RS, TS, BS with TU, TD, TL, TR), each bound to Interaction 'Not Used' and
\* Type 'Not Used'.
C20_DefaultRegistry ==
    nupd = 0 =>
        /\ DOMAIN settings = SettingKeys
        /\ Cardinality(DOMAIN settings) = 16
        /\ \A k \in DOMAIN settings :
              settings[k] = [Interaction |-> "Not Used", Type |-> "Not Used"]

\* the default registry is in use: Live is dispatching the first record's key,
\* and no binding has been changed
C20_Witness ==
    /\ nupd = 0
    /\ nrecv = 1
    /\ ipc = "call"
    /\ current_interaction \in SettingKeys

\* the rotation vector of the record line 930 split in this step (fields 8-10)
SampleRotation ==
    <<Float(message_string'[9]), Float(message_string'[10]), Float(message_string'[11])>>

\* C21: a step that classifies a well-formed sample leaves that sample's
\* rotation vector in rotation_history, in every mode and whatever the tilt;
\* no other step (a dropped record, the branch of execute_command, the call,
\* a step of another thread) writes rotation_history.
C21_HistoryFollowsSample ==
    [][/\ Classifies => rotation_history' = SampleRotation
       /\ ~Classifies => UNCHANGED rotation_history]_vars

\* during an experiment run the second record, rotation (1, 0, 0) after
\* (0, 1, 0), was classified TU and its rotation is the history
C21_Witness ==
    /\ test_status
    /\ nrecv = 2
    /\ ipc = "exec"
    /\ current_interaction = LS \o TU
    /\ rotation_history = <<[n |-> 1, d |-> 1], Zero, Zero>>

\* the function line 965 or 967 calls for the key being dispatched
BoundFunc == interaction_funcs[settings[current_interaction].Interaction].func

\* C22: in Live every classified sample causes exactly one invocation, that of
\* the kind bound to its key: the branch of execute_command goes on to the
\* call, the call invokes the bound function once, and no other step invokes
\* anything.
C22_LiveDispatchesOnce ==
    [][/\ (ipc = "exec" /\ active_status /\ ipc' # "exec") => ipc' = "call"
       /\ (ipc = "call" /\ ipc' # "call")
             => (/\ Len(calls') = Len(calls) + 1
                 /\ calls'[Len(calls')].func = BoundFunc)
       /\ ipc # "call" => calls' = calls]_vars

\* the Python string whose characters are the sequence s
RECURSIVE Str(_)
Str(s) == IF s = << >> THEN "" ELSE Head(s) \o Str(Tail(s))

\* the registered gesture keys, as strings
GestureKeyNames == {Str(k) : k \in DOMAIN settings}

\* C23: the target of every armed trial is one of the registered gesture keys,
\* and so is the required-action field of every result row.
C23_TargetIsGestureKey ==
    \A r \in Runners :
        /\ Armed(r) => interaction[r] \in GestureKeyNames
        /\ \A i \in 1..Len(experiment_results[r]) :
              experiment_results[r][i].RequiredAction \in GestureKeyNames

\* C24: a step that changes active_status (the Enable button) negates it and
\* leaves test_status, last_action, its timestep, the bindings and the
\* classifier histories as they are; the first step of an experiment run sets
\* test_status, its step at line 898 resets it, and no step of an experiment
\* thread and no change of test_status changes active_status.
C24_ModeFrame ==
    [][/\ active_status' # active_status
             => (/\ active_status' = ~active_status
                 /\ UNCHANGED <<test_status, last_action, last_action_timestep, settings,
                                gyroscope_history, accellerometer_history,
                                accelerometer_history, rotation_history>>)
       /\ \A r \in Runners :
             /\ (rpc[r] = "idle" /\ rpc'[r] = "for") => test_status'
             /\ (rpc[r] = "for" /\ rpc'[r] = "save") => ~test_status'
       /\ (rpc' # rpc \/ test_status' # test_status) => UNCHANGED active_status]_vars

\* Live was enabled by the Enable button with a gesture still in last_action,
\* and an experiment run has started and finished
C24_Witness ==
    /\ active_status
    /\ rpc["t1"] = "done"
    /\ ~test_status
    /\ last_action # EmptyStr

\* C25: a sample whose rotation x and y equal those of the history (the zero
\* sample against the initial history, or a sample that repeats the one before
\* it) is classified TU.
C25_ZeroDeltaIsUp ==
    [][(Classifies /\ DeltaX = Zero /\ DeltaY = Zero) => NewTilt = TU]_vars

\* the first record, with rotation (0, 0, 0), was classified against the
\* initial history
C25_Witness ==
    /\ nrecv = 1
    /\ ipc = "exec"
    /\ rotation_history = <<Zero, Zero, Zero>>
    /\ current_interaction = LeftScreen \o TU

\* C26: a step that changes the bindings changes one field of one key's
\* binding and nothing else of settings, keeps the set of keys, and leaves the
\* mode flags, last_action, its timestep and the classifier histories as they
\* are; in every state each of the sixteen gesture keys has a binding.
C26_UpdateFrame ==
    [][/\ settings' # settings
             => (/\ \E k \in DOMAIN settings, f \in {"Interaction", "Type"} :
                       settings' = [settings EXCEPT ![k][f] = settings'[k][f]]
                 /\ UNCHANGED <<active_status, test_status, last_action,
                                last_action_timestep, gyroscope_history,
                                accellerometer_history, accelerometer_history,
                                rotation_history>>)
       /\ DOMAIN settings' = SettingKeys
       /\ \A k \in SettingKeys : DOMAIN settings'[k] = {"Interaction", "Type"}]_vars

\* two changes were made, both to LSTR, while a gesture was in last_action
\* during a run: LSTR has both fields changed, LSTD is as populate_settings
\* left it
C26_Witness ==
    /\ nupd = 2
    /\ settings[LS \o TR] = [Interaction |-> "Volume +", Type |-> "Constant"]
    /\ settings[LS \o TD] = [Interaction |-> "Not Used", Type |-> "Not Used"]
    /\ test_status
    /\ last_action # EmptyStr

\* C27: while an experiment thread is executing trials (lines 866-896)
\* test_status is true, also when another thread has finished its run.
C27_ArmedWhileRunning == \A r \in Runners : InTrials(r) => test_status

\* C28: between the check of line 964 and the call of line 965 or 967 the
\* binding being dispatched keeps the kind whose "parameterized" flag was
\* read, so the call is made with the arguments its function expects and
\* raises no TypeError.
C28_ConsistentSnapshot ==
    /\ ipc = "call" =>
          flag = interaction_funcs[settings[current_interaction].Interaction].flag
    /\ ingest_error # "TypeError"

\* C29: a trial during which, with Live interaction disabled, execute_command
\* recorded a gesture that matches the required widget, early enough before
\* the timeout that a poll of line 876 follows the sleep it fell in, is
\* recorded matched = true, whatever other gestures were recorded in the same
\* trial.
C29_NoLostMatch ==
    [][\A r \in Runners :
          (/\ RecordsRow(r)
           /\ ~active_status
           /\ \E i \in 1..Len(delivered[r]) :
                 delivered[r][i].match /\ delivered[r][i].at + 1 < TimeoutTicks)
          => NewRow(r).Correct]_vars

\* C30: last_action is empty or a key of settings, and no experiment thread
\* ends with the KeyError of the lookup settings[last_action] (lines 879-880).
C30_LastActionRegistered ==
    /\ last_action = EmptyStr \/ last_action \in DOMAIN settings
    /\ \A r \in Runners : run_error[r] # "KeyError"

\* the functions of the parameterized kinds
Parameterized == {interaction_funcs[a].func : a \in {b \in Range(ActionKinds) : interaction_funcs[b].flag}}

\* C31: every invocation of a parameterized action (Volume, Seek, Scroll) in
\* Live receives one argument, and it is one of Constant, Incremental, Steps.
C31_TypeArgument ==
    \A i \in 1..Len(calls) :
        calls[i].func \in Parameterized
            => (Len(calls[i].args) = 1 /\ calls[i].args[1] \in Range(TYPES))

\* C32: the rows of one experiment run all carry the same Mode.
C32_OneKindPerRun ==
    \A r \in Runners : \A i, j \in 1..Len(experiment_results[r]) :
        experiment_results[r][i].Mode = experiment_results[r][j].Mode

\* C33: a step of the ingestion thread taken while active_status is true
\* leaves last_action, last_action_timestep and the gestures recorded for the
\* trials as they are, also while an experiment run is in progress.
C33_LiveRecordsNothing ==
    [][(/\ active_status
        /\ (ipc' # ipc \/ nrecv' # nrecv))
        => UNCHANGED <<last_action, last_action_timestep, delivered>>]_vars

\* a sample is being dispatched in Live while the experiment thread sleeps in
\* a trial for which nothing was recorded
C33_Witness ==
    /\ active_status
    /\ test_status
    /\ ipc = "call"
    /\ rpc["t1"] = "sleep"
    /\ delivered["t1"] = << >>
    /\ last_action = EmptyStr

\* the tilt on the same axis in the other direction
Opposite(t) == CASE t = TR -> TL [] t = TL -> TR [] t = TD -> TU [] t = TU -> TD

\* the tilt of the sample classified last, as the readout shows it (line 961)
ShownTilt == SubSeq(current_action_var, Len(current_action_var) - 1, Len(current_action_var))

\* C34: when a sample whose rotation differs from the history in x or y is
\* classified, the history's rotation classified against that sample (lines
\* 975-985, what the next step computes if the next sample moves back) is the
\* opposite tilt on the same axis; and when the second sample moves back to
\* the initial rotation (0, 0) the first one left, its tilt is the opposite of
\* the first one's.
C34_ReverseMove ==
    [][/\ (Classifies /\ (DeltaX # Zero \/ DeltaY # Zero))
             => TiltKind(rotation_history, rotation_history') = Opposite(NewTilt)
       /\ (/\ Classifies
           /\ nrecv = 1
           /\ rotation_history[1] # Zero \/ rotation_history[2] # Zero
           /\ rotation_history'[1] = Zero
           /\ rotation_history'[2] = Zero)
             => NewTilt = Opposite(ShownTilt)]_vars

\* the first record moved x from 0 and the second moved back to (0, 0): it
\* was classified TL
C34_Witness ==
    /\ nrecv = 2
    /\ ipc = "exec"
    /\ rotation_history = <<Zero, Zero, Zero>>
    /\ current_interaction = LS \o TL

====
